---- MODULE Spec2Model ----
(***************************************************************************)
(* Model of src/app.py: the alignment pipeline (process_audio), the        *)
(* sample-rate search (search) and the driver (main).                      *)
(*                                                                         *)
(* The orchestrator is one thread of control; pc is the source line it is  *)
(* about to execute (sNNN in search, pNNN in process_audio, mNNN in main). *)
(* The three external processes of a pipeline run are environment          *)
(* processes that may exit at any time with any status.  Durations are     *)
(* integers (time units); rates are integers (Hz).  The interpreter is one *)
(* that accepts the multi-line f-string of lines 258-259.                  *)
(*                                                                         *)
(* Spec         the program from the call of search on                     *)
(* LoopSpec     the loop of lines 214-233 entered with a given bracket     *)
(*              (line 212 raises, so Spec never enters the loop)           *)
(* LoopFairSpec LoopSpec with external processes that terminate            *)
(* MonoSpec     the loop with runs that succeed and an output duration     *)
(*              strictly decreasing in the rate                            *)
(* EstSpec      Strategy A's estimate formula applied to bounded inputs    *)
(***************************************************************************)
EXTENDS Integers, FiniteSets, Sequences, TLC

\* ---------------------------------------------------------------- bounds
MaxDur == 2
MaxWidth == 2
MaxEstRate == 4
MaxEstDur == 4
MaxCurve == 4
MaxSlope == 2

\* ------------------------------------------------------ program constants
Step == 50
Inf == -1
None == -1

\* ------------------------------------------------------------ input sets
Durations == 0..MaxDur
BaseRates == {10, 44100}
Stages == {"sox1", "mono", "sox2"}
NoProc == [s \in Stages |-> "none"]
Absent == [kind |-> "absent", dur |-> 0, run |-> 0]
\* <<bits, channels>> given on the command line
Formats == {<<8, 1>>, <<12, 2>>, <<16, 2>>, <<24, 2>>}
\* the options of a stage's command line; 0 where the option is not given
NoCmd == [rate |-> 0, bits |-> 0, channels |-> 0, size |-> 0]
NoTag == [s \in Stages |-> NoCmd]

VARIABLES
  pc,               \* line the orchestrator is about to execute
  caller,           \* call site of the current process_audio call
  rate_hz,          \* process_audio argument rate_hz
  proc,             \* state of the current run's three external processes
  tag,              \* rate each stage of the current run was invoked with
  holds,            \* pipes whose read end the orchestrator still holds
  orphan,           \* a process of an earlier run is still alive
  out,              \* the file at output_path
  ret,              \* value returned by the last process_audio call
  runs,             \* number of pipeline runs started
  hz,               \* search argument hz
  ref_duration, base_duration, modified_hz,
  low, high, mid,
  closest_hz, closest_distance,
  seen,             \* rates and distances evaluated in the loop, in order
  estimated_rate,   \* Strategy A's proportional estimate
  bits, channels,   \* search arguments bits and channels
  low0, high0,      \* the bracket the loop was entered with
  curve,            \* duration of the output per rate, where the tools fix it
  exc,              \* uncaught exception that ended the program
  reported          \* main printed the result

vars == <<pc, caller, rate_hz, proc, tag, holds, orphan, out, ret, runs, hz,
          ref_duration, base_duration, modified_hz, low, high, mid,
          closest_hz, closest_distance, seen, estimated_rate, bits,
          channels, low0, high0, curve, exc, reported>>

\* set once when the search, or the loop, is entered
inputVars == <<bits, channels, low0, high0, curve>>

searchVars == <<hz, ref_duration, base_duration, modified_hz, low, high, mid,
                closest_hz, closest_distance, seen, estimated_rate,
                inputVars>>

\* ----------------------------------------------------------- pure helpers
Abs(x) == IF x < 0 THEN -x ELSE x

\* the lower end of the bracket is taken as the midpoint
MidOf_Low(l, h) == l

\* int(low + (high - low) / 2): true division, then truncation toward zero
MidOf(l, h) ==
  LET n == 2 * l + (h - l)
  IN  IF n >= 0 THEN n \div 2 ELSE -((-n) \div 2)

\* the last midpoint replaces the best one whatever its distance
DistLess_Last(d, c) == TRUE

\* dist < closest_distance, closest_distance possibly math.inf
DistLess(d, c) == c = Inf \/ d < c

\* line 127: sample_size_bytes = (bits_per_sample // 8) * channels
SampleSizeBytes(b, c) == (b \div 8) * c

\* lines 131-140: sox -D input -t raw -b bits -c channels -L -e unsigned -
SoxCmd1(r, b, c) == [rate |-> 0, bits |-> b, channels |-> c, size |-> 0]

\* lines 144-152: mono exe stream-align --sample-size-bytes
\* sample_size_bytes --stream-sample-rate-hz rate_hz --json tbc_path
MonoCmd(r, b, c) ==
  [rate |-> r, bits |-> 0, channels |-> 0, size |-> SampleSizeBytes(b, c)]

\* the raw input is tagged with the rate the search started from
SoxCmd2_Base(r, b, c) == [rate |-> hz, bits |-> b, channels |-> c, size |-> 0]

\* lines 159-169: sox -D -t raw -r rate_hz -b bits -c channels -L
\* -e unsigned-integer - output
SoxCmd2(r, b, c) == [rate |-> r, bits |-> b, channels |-> c, size |-> 0]

\* exit status of the interpreter
ExitStatus == IF exc = "none" THEN 0 ELSE 1

\* an uncaught exception unwinds search and main; the interpreter exits
Raise(e) ==
  /\ pc' = "exit"
  /\ exc' = e
  /\ holds' = {}

\* ------------------------------------------------------------ search, head
\* line 204: ref_duration = get_media_duration(reference_video_path)
ProbeRef ==
  /\ pc = "s204"
  /\ \/ \E d \in Durations :
          /\ ref_duration' = d
          /\ pc' = "s205"
          /\ UNCHANGED <<exc, holds>>
     \/ /\ Raise("ProbeError")
        /\ UNCHANGED ref_duration
  /\ UNCHANGED <<caller, rate_hz, proc, tag, orphan, out, ret, runs, hz,
                 base_duration, modified_hz, low, high, mid, closest_hz,
                 closest_distance, seen, estimated_rate, inputVars,
                 reported>>

\* every run is started at the rate the search was given
Call_BaseRate(site, r) ==
  /\ caller' = site
  /\ rate_hz' = hz
  /\ runs' = runs + 1
  /\ orphan' = (orphan \/ \E s \in Stages : proc[s] = "running")
  /\ proc' = NoProc
  /\ tag' = NoTag
  /\ ret' = None
  /\ pc' = "p141"
  /\ UNCHANGED <<holds, out, exc, reported>>

\* entry of process_audio(input, tbc, output, r, channels, bits)
Call(site, r) ==
  /\ caller' = site
  /\ rate_hz' = r
  /\ runs' = runs + 1
  /\ orphan' = (orphan \/ \E s \in Stages : proc[s] = "running")
  /\ proc' = NoProc
  /\ tag' = NoTag
  /\ ret' = None
  /\ pc' = "p141"
  /\ UNCHANGED <<holds, out, exc, reported>>

\* lines 205-206: base_duration = process_audio(..., hz, ...)
CallBase ==
  /\ pc = "s205"
  /\ Call("base", hz)
  /\ UNCHANGED searchVars

\* --------------------------------------------------------- process_audio
\* return from process_audio to its call site
ReturnTo == IF caller = "base" THEN "s209" ELSE "s223"

\* line 141: sox_process = Popen(sox_cmd_1, stdout=PIPE)
SpawnDecode ==
  /\ pc = "p141"
  /\ \/ /\ proc' = [proc EXCEPT !["sox1"] = "running"]
        /\ tag' = [tag EXCEPT !["sox1"] = SoxCmd1(rate_hz, bits, channels)]
        /\ holds' = holds \cup {"p1"}
        /\ pc' = "p153"
     \/ /\ pc' = "p178"
        /\ UNCHANGED <<proc, tag, holds>>
  /\ UNCHANGED <<caller, rate_hz, orphan, out, ret, runs, exc, reported>>
  /\ UNCHANGED searchVars

\* lines 153-154: mono_process = Popen(mono_cmd, stdin=sox_process.stdout,
\* stdout=PIPE), with --stream-sample-rate-hz rate_hz
SpawnRealign ==
  /\ pc = "p153"
  /\ \/ /\ proc' = [proc EXCEPT !["mono"] = "running"]
        /\ tag' = [tag EXCEPT !["mono"] = MonoCmd(rate_hz, bits, channels)]
        /\ holds' = holds \cup {"p2"}
        /\ pc' = "p156"
     \/ /\ pc' = "p178"
        /\ UNCHANGED <<proc, tag, holds>>
  /\ UNCHANGED <<caller, rate_hz, orphan, out, ret, runs, exc, reported>>
  /\ UNCHANGED searchVars

\* line 156: sox_process.stdout.close()
CloseDecodeOut ==
  /\ pc = "p156"
  /\ holds' = holds \ {"p1"}
  /\ pc' = "p170"
  /\ UNCHANGED <<caller, rate_hz, proc, tag, orphan, out, ret, runs, exc,
                 reported>>
  /\ UNCHANGED searchVars

\* line 170: subprocess.run(sox_cmd_2, stdin=mono_process.stdout), spawn part
\* (-r rate_hz); no check=True
SpawnEncode ==
  /\ pc = "p170"
  /\ \/ /\ proc' = [proc EXCEPT !["sox2"] = "running"]
        /\ tag' = [tag EXCEPT !["sox2"] = SoxCmd2(rate_hz, bits, channels)]
        /\ pc' = "p170w"
     \/ /\ pc' = "p178"
        /\ UNCHANGED <<proc, tag>>
  /\ UNCHANGED <<caller, rate_hz, holds, orphan, out, ret, runs, exc,
                 reported>>
  /\ UNCHANGED searchVars

\* the encode process is started but not waited for (Popen for run)
WaitEncode_NoWait ==
  /\ pc = "p170w"
  /\ pc' = "p171"
  /\ UNCHANGED <<caller, rate_hz, proc, tag, holds, orphan, out, ret, runs,
                 exc, reported>>
  /\ UNCHANGED searchVars

\* line 170: subprocess.run blocks until the encode process has exited; its
\* return code is not inspected
WaitEncode ==
  /\ pc = "p170w"
  /\ proc["sox2"] \in {"ok", "failed"}
  /\ pc' = "p171"
  /\ UNCHANGED <<caller, rate_hz, proc, tag, holds, orphan, out, ret, runs,
                 exc, reported>>
  /\ UNCHANGED searchVars

\* line 171: mono_process.stdout.close()
CloseRealignOut ==
  /\ pc = "p171"
  /\ holds' = holds \ {"p2"}
  /\ pc' = "p174"
  /\ UNCHANGED <<caller, rate_hz, proc, tag, orphan, out, ret, runs, exc,
                 reported>>
  /\ UNCHANGED searchVars

\* line 174: return get_media_duration(output); ffmpeg.probe raises on a
\* missing or empty file
ProbeOutput ==
  /\ pc = "p174"
  /\ IF out.kind = "media"
       THEN /\ ret' = out.dur
            /\ pc' = ReturnTo
       ELSE /\ ret' = None
            /\ pc' = "p178"
  /\ UNCHANGED <<caller, rate_hz, proc, tag, holds, orphan, out, runs, exc,
                 reported>>
  /\ UNCHANGED searchVars

\* lines 176-179: the handlers print the error; the function falls off its
\* end and returns None
Handler ==
  /\ pc = "p178"
  /\ ret' = None
  /\ pc' = ReturnTo
  /\ UNCHANGED <<caller, rate_hz, proc, tag, holds, orphan, out, runs, exc,
                 reported>>
  /\ UNCHANGED searchVars

\* ------------------------------------------------- the external processes
\* the decode or the realign process exits, with status zero or non-zero
StageExit ==
  /\ \E s \in {"sox1", "mono"} : \E st \in {"ok", "failed"} :
        /\ proc[s] = "running"
        /\ proc' = [proc EXCEPT ![s] = st]
  /\ UNCHANGED <<pc, caller, rate_hz, tag, holds, orphan, out, ret, runs,
                 exc, reported>>
  /\ UNCHANGED searchVars

\* the encode process exits: on success it has written output_path (possibly
\* with no data); on failure it may also have left the old file untouched
EncodeExit ==
  /\ proc["sox2"] = "running"
  /\ \/ \E st \in {"ok", "failed"} : \E d \in Durations :
          /\ proc' = [proc EXCEPT !["sox2"] = st]
          /\ out' = [kind |-> "media", dur |-> d, run |-> runs]
     \/ \E st \in {"ok", "failed"} :
          /\ proc' = [proc EXCEPT !["sox2"] = st]
          /\ out' = [kind |-> "empty", dur |-> 0, run |-> runs]
     \/ /\ proc' = [proc EXCEPT !["sox2"] = "failed"]
        /\ UNCHANGED out
  /\ UNCHANGED <<pc, caller, rate_hz, tag, holds, orphan, ret, runs, exc,
                 reported>>
  /\ UNCHANGED searchVars

\* a process left over from an earlier run exits
OrphanExit ==
  /\ orphan
  /\ orphan' = FALSE
  /\ UNCHANGED <<pc, caller, rate_hz, proc, tag, holds, out, ret, runs, exc,
                 reported>>
  /\ UNCHANGED searchVars

Pipeline ==
  \/ SpawnDecode
  \/ SpawnRealign
  \/ CloseDecodeOut
  \/ SpawnEncode
  \/ WaitEncode
  \/ CloseRealignOut
  \/ ProbeOutput
  \/ Handler
  \/ StageExit
  \/ EncodeExit

\* ------------------------------------------------------- search, bracket
\* line 210: modified_hz = hz + 50 if audio_longer_than_video else hz - 50,
\* with audio_longer_than_video = ref_duration < base_duration (line 209)
ModifiedHz(h, ref, base) == IF ref < base THEN h + Step ELSE h - Step

\* lines 209-210: audio_longer_than_video = ref_duration < base_duration;
\* modified_hz = hz + 50 if audio_longer_than_video else hz - 50
Compare ==
  /\ pc = "s209"
  /\ IF ret = None
       THEN /\ Raise("TypeError")
            /\ UNCHANGED <<base_duration, modified_hz>>
       ELSE /\ base_duration' = ret
            /\ modified_hz' = ModifiedHz(hz, ref_duration, ret)
            /\ pc' = "s212"
            /\ UNCHANGED <<exc, holds>>
  /\ UNCHANGED <<caller, rate_hz, proc, tag, orphan, out, ret, runs, hz,
                 ref_duration, low, high, mid, closest_hz, closest_distance,
                 seen, estimated_rate, inputVars, reported>>

\* a right-hand side of two values, in the order written
BracketRhs_Pair == <<modified_hz, hz>>

\* line 212: low, high = modified_hz, hz if modified_hz < hz else hz,
\* modified_hz -- the right-hand side is a 3-tuple
BracketRhs ==
  <<modified_hz, IF modified_hz < hz THEN hz ELSE hz, modified_hz>>

\* line 212: unpacking into the two targets low, high
Bracket ==
  /\ pc = "s212"
  /\ IF Len(BracketRhs) = 2
       THEN /\ low' = BracketRhs[1]
            /\ high' = BracketRhs[2]
            /\ low0' = BracketRhs[1]
            /\ high0' = BracketRhs[2]
            /\ pc' = "s214"
            /\ UNCHANGED <<exc, holds>>
       ELSE /\ Raise("ValueError")
            /\ UNCHANGED <<low, high, low0, high0>>
  /\ UNCHANGED <<caller, rate_hz, proc, tag, orphan, out, ret, runs, hz,
                 ref_duration, base_duration, modified_hz, mid, closest_hz,
                 closest_distance, seen, estimated_rate, bits, channels,
                 curve, reported>>

\* ---------------------------------------------------------- search, loop
\* lines 214-215: closest_hz = high; closest_distance = math.inf
InitClosest ==
  /\ pc = "s214"
  /\ closest_hz' = high
  /\ closest_distance' = Inf
  /\ pc' = "s217"
  /\ UNCHANGED <<caller, rate_hz, proc, tag, holds, orphan, out, ret, runs,
                 hz, ref_duration, base_duration, modified_hz, low, high,
                 mid, seen, estimated_rate, inputVars, exc, reported>>

\* lines 217-218: while low <= high: mid = int(low + (high - low) / 2)
LoopTest ==
  /\ pc = "s217"
  /\ IF low <= high
       THEN /\ mid' = MidOf(low, high)
            /\ pc' = "s220"
       ELSE /\ pc' = "s233"
            /\ UNCHANGED mid
  /\ UNCHANGED <<caller, rate_hz, proc, tag, holds, orphan, out, ret, runs,
                 hz, ref_duration, base_duration, modified_hz, low, high,
                 closest_hz, closest_distance, seen, estimated_rate,
                 inputVars, exc, reported>>

\* lines 220-221: duration = process_audio(..., mid, ...)
CallMid ==
  /\ pc = "s220"
  /\ Call("mid", mid)
  /\ UNCHANGED searchVars

\* the lower bound is moved to mid, not past it
Narrow_Stuck(l, h, m, ref, duration) ==
  IF ref < duration THEN <<m, h>> ELSE <<l, m - 1>>

\* the comparison of line 228 is inverted
Narrow_Flipped(l, h, m, ref, duration) ==
  IF ref > duration THEN <<m + 1, h>> ELSE <<l, m - 1>>

\* lines 229 and 231: the new bracket after comparing ref_duration with the
\* duration measured at m
Narrow(l, h, m, ref, duration) ==
  IF ref < duration THEN <<m + 1, h>> ELSE <<l, m - 1>>

\* lines 223-231: dist = abs(ref_duration - duration); keep the closest;
\* narrow the bracket
Iterate ==
  /\ pc = "s223"
  /\ IF ret = None
       THEN /\ Raise("TypeError")
            /\ UNCHANGED <<low, high, closest_hz, closest_distance, seen>>
       ELSE LET dist == Abs(ref_duration - ret)
                nb == Narrow(low, high, mid, ref_duration, ret)
            IN  /\ seen' = Append(seen, [rate |-> mid, dist |-> dist])
                /\ IF DistLess(dist, closest_distance)
                     THEN /\ closest_distance' = dist
                          /\ closest_hz' = mid
                     ELSE UNCHANGED <<closest_hz, closest_distance>>
                /\ low' = nb[1]
                /\ high' = nb[2]
                /\ pc' = "s217"
                /\ UNCHANGED <<exc, holds>>
  /\ UNCHANGED <<caller, rate_hz, proc, tag, orphan, out, ret, runs, hz,
                 ref_duration, base_duration, modified_hz, mid, estimated_rate,
                 inputVars, reported>>

\* line 233: return closest_hz, closest_distance (to main, line 252)
Return ==
  /\ pc = "s233"
  /\ pc' = "m256"
  /\ UNCHANGED <<caller, rate_hz, proc, tag, holds, orphan, out, ret, runs,
                 exc, reported>>
  /\ UNCHANGED searchVars

\* lines 256-259: main prints the result and the program ends
Report ==
  /\ pc = "m256"
  /\ reported' = TRUE
  /\ pc' = "exit"
  /\ holds' = {}
  /\ UNCHANGED <<caller, rate_hz, proc, tag, orphan, out, ret, runs, exc>>
  /\ UNCHANGED searchVars

\* --------------------------------------------------------- the program
Init ==
  /\ pc = "s204"
  /\ caller = "base"
  /\ rate_hz = 0
  /\ proc = NoProc
  /\ tag = NoTag
  /\ holds = {}
  /\ orphan = FALSE
  /\ out \in {Absent} \cup
             {[kind |-> "media", dur |-> d, run |-> 0] : d \in Durations}
  /\ ret = None
  /\ runs = 0
  /\ hz \in BaseRates
  /\ ref_duration = 0
  /\ base_duration = 0
  /\ modified_hz = 0
  /\ low = 0
  /\ high = 0
  /\ mid = 0
  /\ closest_hz = 0
  /\ closest_distance = Inf
  /\ seen = <<>>
  /\ estimated_rate = 0
  /\ \E f \in Formats : bits = f[1] /\ channels = f[2]
  /\ low0 = 0
  /\ high0 = 0
  /\ curve = <<>>
  /\ exc = "none"
  /\ reported = FALSE

Next ==
  \/ ProbeRef
  \/ CallBase
  \/ Pipeline
  \/ Compare
  \/ Bracket

Spec == Init /\ [][Next]_vars

\* ------------------------------------------- the bisection loop on its own
\* Lines 214-233 entered with an arbitrary non-empty bracket, after a base
\* run that left a media file at output_path.
LowRates == {-3, 44100}

\* brackets of every small width at each low rate, with every reference
\* duration, and the 50 Hz bracket above 44100 Hz
LoopInputs ==
  {[low |-> l, high |-> l + w, ref |-> r] :
     l \in LowRates, w \in 0..MaxWidth, r \in Durations}
  \cup {[low |-> 44100, high |-> 44100 + Step, ref |-> 1]}

LoopInit ==
  /\ pc = "s214"
  /\ caller = "base"
  /\ rate_hz = 0
  /\ proc = NoProc
  /\ tag = NoTag
  /\ holds = {}
  /\ orphan \in BOOLEAN
  /\ out = [kind |-> "media", dur |-> 0, run |-> 1]
  /\ ret = None
  /\ runs = 1
  /\ hz = 0
  /\ base_duration = 0
  /\ modified_hz = 0
  /\ \E i \in LoopInputs :
        /\ low = i.low
        /\ high = i.high
        /\ ref_duration = i.ref
  /\ mid = 0
  /\ closest_hz = 0
  /\ closest_distance = Inf
  /\ seen = <<>>
  /\ estimated_rate = 0
  /\ \E f \in Formats :
        /\ high - low > MaxWidth => f = <<16, 2>>
        /\ bits = f[1]
        /\ channels = f[2]
  /\ low0 = low
  /\ high0 = high
  /\ curve = <<>>
  /\ exc = "none"
  /\ reported = FALSE

LoopNext ==
  \/ InitClosest
  \/ LoopTest
  \/ CallMid
  \/ Pipeline
  \/ OrphanExit
  \/ Iterate
  \/ Return
  \/ Report

LoopSpec == LoopInit /\ [][LoopNext]_vars

\* the external processes terminate and the orchestrator keeps running
LoopFairSpec == LoopSpec /\ WF_vars(LoopNext)

\* ------------------- the loop with tools whose output shortens with the rate
\* Every run succeeds and the file the encode stage writes at rate r lasts
\* curve[r], strictly decreasing in r.
Decreasing(l, h, top) ==
  {f \in [l..h -> 0..top] : \A r \in l..(h - 1) : f[r] > f[r + 1]}

\* <<low, high, curve, ref_duration>>: every decreasing curve on the small
\* brackets, straight lines on the 50 Hz bracket
MonoInputs ==
  {<<l, l + w, f, r>> : l \in LowRates, w \in 0..MaxWidth,
                        f \in UNION {Decreasing(ll, ll + ww, MaxCurve) :
                                       ll \in LowRates, ww \in 0..MaxWidth},
                        r \in 0..MaxCurve}
  \cup UNION {{<<44100, 44100 + Step,
                 [x \in 44100..(44100 + Step) |-> 1 + k * (44100 + Step - x)],
                 r>> : r \in 0..(2 + k * Step)} : k \in 1..MaxSlope}

MonoInit ==
  /\ pc = "s214"
  /\ caller = "base"
  /\ rate_hz = 0
  /\ proc = NoProc
  /\ tag = NoTag
  /\ holds = {}
  /\ orphan = FALSE
  /\ out = [kind |-> "media", dur |-> 0, run |-> 1]
  /\ ret = None
  /\ runs = 1
  /\ hz = 0
  /\ base_duration = 0
  /\ modified_hz = 0
  /\ \E i \in MonoInputs :
        /\ DOMAIN i[3] = i[1]..i[2]
        /\ low = i[1]
        /\ high = i[2]
        /\ curve = i[3]
        /\ ref_duration = i[4]
  /\ mid = 0
  /\ closest_hz = 0
  /\ closest_distance = Inf
  /\ seen = <<>>
  /\ estimated_rate = 0
  /\ bits = 16
  /\ channels = 2
  /\ low0 = low
  /\ high0 = high
  /\ exc = "none"
  /\ reported = FALSE

\* the encode process ends with status zero, having written the output for
\* the rate it was given
MonoEncodeExit ==
  /\ proc["sox2"] = "running"
  /\ proc' = [proc EXCEPT !["sox2"] = "ok"]
  /\ out' = [kind |-> "media", dur |-> curve[tag["sox2"].rate], run |-> runs]
  /\ UNCHANGED <<pc, caller, rate_hz, tag, holds, orphan, ret, runs, exc,
                 reported>>
  /\ UNCHANGED searchVars

\* a step of a run in which every process starts and exits with status zero
MonoPipeline ==
  /\ \/ SpawnDecode
     \/ SpawnRealign
     \/ CloseDecodeOut
     \/ SpawnEncode
     \/ WaitEncode
     \/ CloseRealignOut
     \/ ProbeOutput
     \/ StageExit
     \/ MonoEncodeExit
  /\ pc' /= "p178"
  /\ \A s \in Stages : proc'[s] /= "failed"

MonoNext ==
  \/ InitClosest
  \/ LoopTest
  \/ CallMid
  \/ MonoPipeline
  \/ OrphanExit
  \/ Iterate
  \/ Return
  \/ Report

MonoSpec == MonoInit /\ [][MonoNext]_vars

\* ------------------------------------------ Strategy A's estimate formula
\* quotient and remainder of x * rate by dur, by long multiplication over
\* the decimal digits of rate (no intermediate product leaves 32 bits)
RECURSIVE MulDivMod(_, _, _)
MulDivMod(x, rate, dur) ==
  IF rate = 0 THEN <<0, 0>>
  ELSE LET qr == MulDivMod(x, rate \div 10, dur)
           t == 10 * qr[2] + x * (rate % 10)
       IN  <<10 * qr[1] + t \div dur, t % dur>>

\* the division is done before the multiplication
EstimatedRate_DivFirst(ref, base_rate, base_dur) ==
  (ref \div base_dur) * base_rate

\* the quotient is rounded up
EstimatedRate_Ceil(ref, base_rate, base_dur) ==
  LET qr == MulDivMod(ref, base_rate, base_dur)
  IN  IF qr[2] > 0 THEN qr[1] + 1 ELSE qr[1]

\* estimated_rate = floor(ref_duration * base_rate / base_duration)
EstimatedRate(ref, base_rate, base_dur) ==
  MulDivMod(ref, base_rate, base_dur)[1]

EstRates == (1..MaxEstRate) \cup {44100}
EstDurs == (1..MaxEstDur) \cup {60000, 60816}

\* <<ref_duration, base_rate, base_duration>>; a reference of a minute is
\* paired with base durations of a minute
EstInputs ==
  {i \in EstDurs \X EstRates \X EstDurs : i[1] <= MaxEstDur \/ i[3] > MaxEstDur}

EstInit ==
  /\ pc = "est"
  /\ caller = "base"
  /\ rate_hz = 0
  /\ proc = NoProc
  /\ tag = NoTag
  /\ holds = {}
  /\ orphan = FALSE
  /\ out = Absent
  /\ ret = None
  /\ runs = 0
  /\ \E i \in EstInputs :
        /\ ref_duration = i[1]
        /\ hz = i[2]
        /\ base_duration = i[3]
  /\ modified_hz = 0
  /\ low = 0
  /\ high = 0
  /\ mid = 0
  /\ closest_hz = 0
  /\ closest_distance = Inf
  /\ seen = <<>>
  /\ estimated_rate = 0
  /\ bits = 16
  /\ channels = 2
  /\ low0 = 0
  /\ high0 = 0
  /\ curve = <<>>
  /\ exc = "none"
  /\ reported = FALSE

\* step 2 of Strategy A
Estimate ==
  /\ pc = "est"
  /\ estimated_rate' = EstimatedRate(ref_duration, hz, base_duration)
  /\ pc' = "estDone"
  /\ UNCHANGED <<caller, rate_hz, proc, tag, holds, orphan, out, ret, runs,
                 hz, ref_duration, base_duration, modified_hz, low, high,
                 mid, closest_hz, closest_distance, seen, inputVars, exc,
                 reported>>

EstSpec == EstInit /\ [][Estimate]_vars

\* ================================================================ claims
Min(a, b) == IF a < b THEN a ELSE b
Max(a, b) == IF a < b THEN b ELSE a
JustReturned == {"s209", "s223"}
SeenDists == {seen[i].dist : i \in DOMAIN seen}

\* C1: after the base-rate run the bracket is built without error as
\* low = min(hz, modified_hz), high = max(hz, modified_hz), so low <= high
\* before the first midpoint is evaluated.
C1_BracketBuilt ==
  /\ exc /= "ValueError"
  /\ pc = "s214" =>
       /\ low = Min(hz, modified_hz)
       /\ high = Max(hz, modified_hz)
       /\ low <= high

\* C2: every loop iteration evaluates a midpoint inside the bracket and then
\* moves low past it or high below it, so high - low strictly decreases; the
\* search ends: it returns unless a run produced no duration.
C2_LoopTerminates ==
  /\ [][(pc = "s223" /\ pc' = "s217") =>
          /\ low <= mid /\ mid <= high
          /\ (low' = mid + 1 /\ high' = high) \/ (high' = mid - 1 /\ low' = low)
          /\ high' - low' < high - low]_vars
  /\ [][(pc = "s217" /\ pc' = "s220") => (low <= mid' /\ mid' <= high)]_vars
  /\ <>(pc = "exit" /\ (reported \/ exc = "TypeError"))

C2_Witness == pc = "s233" /\ Len(seen) >= 3 /\ low > high

\* C3: once a midpoint has been evaluated, closest_distance is the minimum
\* of the distances observed so far and closest_hz is an evaluated midpoint
\* with exactly that distance; this is the pair search returns.
C3_BestSeen ==
  seen /= <<>> =>
    /\ closest_distance \in SeenDists
    /\ \A d \in SeenDists : closest_distance <= d
    /\ \E i \in DOMAIN seen :
          seen[i].rate = closest_hz /\ seen[i].dist = closest_distance

C3_Witness ==
  /\ pc = "m256"
  /\ Len(seen) >= 2
  /\ closest_hz /= seen[Len(seen)].rate
  /\ closest_distance < seen[Len(seen)].dist

\* C4: a pipeline run in which one of the three processes exited non-zero,
\* or which left output_path absent or empty, returns no duration.
C4_FailedRunIsError ==
  (pc \in JustReturned /\
     ((\E s \in Stages : proc[s] = "failed") \/ out.kind /= "media"))
    => ret = None

\* C5: after a pipeline run without a duration the program ends in a
\* diagnosed failure: no result is reported, no other run is started and the
\* exit is not a crash on the missing value.
C5_DiagnosedFailure ==
  (pc = "exit" /\ runs >= 1 /\ ret = None) =>
     /\ ~reported
     /\ ExitStatus /= 0
     /\ exc = "PipelineError"

\* C6: a run returns only after its decode, realign and encode processes
\* have all ended, and no process of an earlier run is alive during a run.
C6_RunsSequential ==
  /\ ~orphan
  /\ pc \in JustReturned => \A s \in Stages : proc[s] /= "running"

\* C7: on every path the orchestrator gives up the read end of a pipe once
\* it was handed to the consumer: outside the statements from the pipe's
\* creation to its close it holds no read end.
C7_PipesDetached ==
  /\ pc \notin {"p153", "p156"} => "p1" \notin holds
  /\ pc \notin {"p156", "p170", "p170w", "p171"} => "p2" \notin holds

C9_EstimatePositive ==
  pc = "estDone" => estimated_rate > 0

\* C9 (amended): the estimate is never negative, and it is positive exactly
\* when ref_duration * base_rate >= base_duration.
C9_EstimateNonNegative ==
  pc = "estDone" =>
    /\ estimated_rate >= 0
    /\ estimated_rate > 0 <=>
         hz >= (base_duration + ref_duration - 1) \div ref_duration

C9_Witness ==
  pc = "estDone" /\ estimated_rate = 0 /\ ref_duration > 0 /\ hz > 0

\* C10 (as stated): 60000 ms, 44100 Hz and 60816 ms give 43509.
C10_Scenario43509 ==
  (pc = "estDone" /\ ref_duration = 60000 /\ hz = 44100 /\
     base_duration = 60816) => estimated_rate = 43509

\* C10 (amended): 60000 ms, 44100 Hz and 60816 ms give 43508.
C10_Scenario43508 ==
  (pc = "estDone" /\ ref_duration = 60000 /\ hz = 44100 /\
     base_duration = 60816) => estimated_rate = 43508

C10_Witness ==
  /\ pc = "estDone"
  /\ ref_duration = 60000 /\ hz = 44100 /\ base_duration = 60816
  /\ estimated_rate < 43509

InPipeline == {"p141", "p153", "p156", "p170", "p170w", "p171", "p174",
               "p178"}
\* a pipeline run was started for an iteration that has not recorded it
RunPending == pc \in InPipeline \cup {"s223"} \/ exc = "TypeError"

\* C11: each loop iteration performs exactly one pipeline run; every
\* evaluated midpoint lies in the initial bracket and none is evaluated
\* twice; the iterations number at most ceil(log2(high0 - low0 + 2)), which
\* for the 50 Hz bracket is 6, i.e. 7 pipeline runs with the base-rate run.
C11_LogRuns ==
  /\ runs = 1 + Len(seen) + (IF RunPending THEN 1 ELSE 0)
  /\ \A i \in DOMAIN seen : low0 <= seen[i].rate /\ seen[i].rate <= high0
  /\ \A i, j \in DOMAIN seen : i /= j => seen[i].rate /= seen[j].rate
  /\ runs >= 2 => 2 ^ (runs - 2) < high0 - low0 + 2
  /\ high0 - low0 = Step => (Len(seen) <= 6 /\ runs <= 7)

C11_Witness ==
  pc = "m256" /\ high0 - low0 = Step /\ Len(seen) = 6 /\ runs = 7

EncodeEnded == proc["sox2"] \in {"ok", "failed"}

\* C12: within a run the output file is probed only once the encode process
\* has ended, a duration is obtained only by that probe, and process_audio
\* returns only from the probe (or, without a duration, from the handler).
C12_ProbeAfterEncode ==
  /\ [](pc = "p174" => EncodeEnded)
  /\ []((pc \in JustReturned /\ ret /= None) => EncodeEnded)
  /\ [][(ret = None /\ ret' /= None) =>
          (pc = "p174" /\ EncodeEnded /\ pc' \in JustReturned)]_vars
  /\ [][(pc \notin JustReturned /\ pc' \in JustReturned) =>
          (pc = "p174" \/ (pc = "p178" /\ ret' = None))]_vars

C12_Witness ==
  pc = "s209" /\ ret /= None /\ proc["sox2"] = "ok" /\ out.run = runs

\* C13: in the run at candidate rate r (the midpoint of the iteration) the
\* realign stage gets stream sample rate r and, for a bit depth that is a
\* multiple of 8, frame size bits / 8 * channels; the encode stage tags its
\* input with the same r and with the bit depth and channel count given to
\* the decode stage.
C13_StageRates ==
  /\ (caller = "mid" /\ pc \in InPipeline \cup {"s223"}) => rate_hz = mid
  /\ proc["sox1"] /= "none" =>
       (tag["sox1"].bits = bits /\ tag["sox1"].channels = channels)
  /\ proc["mono"] /= "none" =>
       /\ tag["mono"].rate = rate_hz
       /\ bits % 8 = 0 => 8 * tag["mono"].size = bits * channels
  /\ proc["sox2"] /= "none" =>
       /\ tag["sox2"].rate = rate_hz
       /\ tag["sox2"].rate = tag["mono"].rate
       /\ tag["sox2"].bits = tag["sox1"].bits
       /\ tag["sox2"].channels = tag["sox1"].channels

C13_Witness ==
  /\ pc = "p170w" /\ caller = "mid" /\ runs >= 3
  /\ proc["sox2"] = "running"
  /\ tag["sox2"].rate = mid /\ tag["mono"].size = 6 /\ bits = 24

SeenRates == {seen[i].rate : i \in DOMAIN seen}

\* C14: with runs that all succeed and an output duration strictly
\* decreasing in the rate, search returns a rate of the initial bracket
\* whose distance to ref_duration is minimal over all rates of the bracket;
\* the rates on both sides of the crossing of ref_duration are evaluated
\* when they lie in the bracket; and the loop moves low up exactly for the
\* durations for which line 210 puts the bracket above hz.
C14_MonotoneOptimal ==
  /\ pc = "m256" =>
       /\ closest_hz \in low0..high0
       /\ closest_distance = Abs(ref_duration - curve[closest_hz])
       /\ \A r \in low0..high0 :
            closest_distance <= Abs(ref_duration - curve[r])
       /\ \A r \in low0..high0 :
            (curve[r] > ref_duration /\
               (r = high0 \/ curve[r + 1] <= ref_duration)) => r \in SeenRates
       /\ \A r \in low0..high0 :
            (curve[r] <= ref_duration /\
               (r = low0 \/ curve[r - 1] > ref_duration)) => r \in SeenRates
  /\ \A r \in DOMAIN curve :
       (ModifiedHz(hz, ref_duration, curve[r]) > hz)
         <=> (Narrow(low, high, r, ref_duration, curve[r]) = <<r + 1, high>>)

C14_Witness ==
  /\ pc = "m256"
  /\ high0 - low0 = Step
  /\ closest_distance > 0
  /\ closest_hz /= seen[Len(seen)].rate
  /\ \E r \in low0..(high0 - 1) :
        curve[r] > ref_duration /\ curve[r + 1] < ref_duration

LastSeen == seen[Len(seen)]

C16_OwnFile ==
  (pc \in JustReturned /\ ret /= None) => out.run = runs

====
